---- MODULE Spec2Model ----
(***************************************************************************)
(* The recording / transcription lifecycle of the ScriptSpeak frontend     *)
(* (frontend/src/App.jsx): React state, the three refs, the pending        *)
(* getUserMedia promises of startRecording, the MediaRecorders it creates  *)
(* with their ondataavailable / onstop handlers, and the POST /transcribe  *)
(* requests of sendAudioToBackend, and the language list that the mount    *)
(* effect fetches for the selector.                                        *)
(*                                                                         *)
(* Every action is one browser task: an event handler (or the continuation *)
(* of an await) together with the microtasks it triggers, which the event  *)
(* loop runs before any other event is delivered.  React re-renders        *)
(* between tasks, so the handlers bound to the buttons read the current    *)
(* state; a closure created inside startRecording keeps the values of the  *)
(* render in which that startRecording was invoked.                        *)
(***************************************************************************)
EXTENDS Naturals, Sequences, FiniteSets

\* ----- bounds of the model -----
\* number of startRecording invocations (= getUserMedia requests) explored
MaxStarts == 2
\* number of non-empty audio fragments explored, over all recorders
MaxFrags == 2

Ids == 1..MaxStarts

\* ----- values -----
\* codes of the fallback list of fetchLanguages, in the order of its options
FallbackCodes == <<"hindi", "punjabi", "english">>
\* codes of a list the server answers GET /languages with: the initial
\* language and one of the languages of the README that the fallback lacks
ServerCodes == <<"hindi", "tamil">>
\* lists a 2xx answer of GET /languages may carry: that one, an empty one,
\* and two without the initial language
ServerLists == {ServerCodes, <<>>, <<"tamil">>, <<"punjabi", "tamil">>}
\* what setLanguages stores when the 2xx body has no languages array
Undefined == "undefined"
\* the codes of a list
Codes(list) == {list[k] : k \in 1..Len(list)}
Langs == Codes(FallbackCodes) \cup UNION {Codes(list) : list \in ServerLists}
InitialLanguage == "hindi"
\* native_text values a success response may carry ("" : empty or missing)
Texts == {"", "hello world"}
\* message values of a success-flag-false response ("" : empty or missing)
Messages == {"", "Audio too short"}
MicErrorMessage == "Could not access microphone. Please allow microphone permissions."
NoSpeechMessage == "No speech detected"
ServerErrorPrefix == "Error: "
DefaultDetail == "Failed to transcribe audio"
ConnectMessage == "Could not connect to server. Please check your internet connection."
UnexpectedMessage == "An unexpected error occurred."
\* detail values of a non-2xx response ("" : empty or missing); the server is
\* free to send any text, the client's own connectivity message included
Details == {"", "Upstream failure", ConnectMessage}

\* JavaScript `a || b` on strings: the empty (or missing) string is falsy
OrElse(a, b) == IF a # "" THEN a ELSE b

VARIABLES
    transcribedText,   \* useState('')
    isRecording,       \* useState(false)
    isProcessing,      \* useState(false)
    selectedLanguage,  \* useState('hindi')
    isDarkMode,        \* useState(false)
    error,             \* useState('')
    languages,         \* useState([]): the codes of the list, or Undefined
    fetchPc,           \* GET /languages of the mount effect: "pending", "done"
    mounted,           \* the component tree is rendered (no render has thrown)
    mediaRecorderRef,  \* useRef(null): 0 is null, else the recorder's id
    audioChunksRef,    \* useRef([]): sequence of fragments <<recorder, n>>
    streamRef,         \* useRef(null): 0 is null, else the stream's id
    nStarts,           \* startRecording invocations so far
    startPc,           \* per invocation: "idle", "awaitMic", "returned"
    closureLang,       \* per invocation, while it or its recorder can still run:
                       \* selectedLanguage of the render that invoked it
    acquired,          \* per invocation: getUserMedia resolved with a stream
    trackStops,        \* per stream: times its tracks were stopped
    recorder,          \* per invocation: state of its MediaRecorder
    request,           \* per invocation: state of its POST /transcribe
    reqAudio,          \* per request in flight: contents of the submitted blob
    reqLanguage,       \* per request in flight: language field of the form
    sourceEnded,       \* per stream: its tracks were ended by their source
                       \* (device removed, permission revoked)
    delivered,         \* per recorder, until its request ends: the non-empty
                       \* fragments it delivered
    nFrags             \* non-empty fragments delivered so far, by all recorders

vars == <<transcribedText, isRecording, isProcessing, selectedLanguage,
          isDarkMode, error, languages, fetchPc, mounted, mediaRecorderRef,
          audioChunksRef, streamRef,
          nStarts, startPc, closureLang, acquired, trackStops, sourceEnded,
          recorder, request, reqAudio, reqLanguage, delivered, nFrags>>

uiVars == <<transcribedText, isRecording, isProcessing, selectedLanguage,
            isDarkMode, error>>
\* recording / transcription never writes the language list, and none of its
\* renders throws
listVars == <<languages, fetchPc, mounted>>
refVars == <<mediaRecorderRef, audioChunksRef, streamRef>>
callVars == <<nStarts, startPc, closureLang>>
mediaVars == <<acquired, trackStops, sourceEnded, recorder, delivered, nFrags>>
reqVars == <<request, reqAudio, reqLanguage>>

Init ==
    /\ transcribedText = ""
    /\ isRecording = FALSE
    /\ isProcessing = FALSE
    /\ selectedLanguage = InitialLanguage
    /\ isDarkMode = FALSE
    /\ error = ""
    /\ languages = <<>>
    /\ fetchPc = "pending"
    /\ mounted = TRUE
    /\ mediaRecorderRef = 0
    /\ audioChunksRef = <<>>
    /\ streamRef = 0
    /\ nStarts = 0
    /\ startPc = [i \in Ids |-> "idle"]
    /\ closureLang = [i \in Ids |-> InitialLanguage]
    /\ acquired = [i \in Ids |-> FALSE]
    /\ trackStops = [i \in Ids |-> 0]
    /\ sourceEnded = [i \in Ids |-> FALSE]
    /\ recorder = [i \in Ids |-> "none"]
    /\ request = [i \in Ids |-> "none"]
    /\ reqAudio = [i \in Ids |-> <<>>]
    /\ reqLanguage = [i \in Ids |-> InitialLanguage]
    /\ delivered = [i \in Ids |-> <<>>]
    /\ nFrags = 0

\* ----- what the render binds to the controls -----
\* <button onClick={isRecording ? stopRecording : startRecording} disabled={isProcessing}>
RecordButtonDisabled == isProcessing
RecordButtonStops == isRecording
\* <select disabled={isRecording || isProcessing}>
LanguageSelectDisabled_OnlyProcessing == isProcessing
LanguageSelectDisabled == isRecording \/ isProcessing
\* {transcribedText && ( ... <button onClick={clearText}>Clear</button> ... )}
ClearButtonRendered == mounted /\ transcribedText # ""

\* a state setter called by a handler or a continuation: once the tree is
\* unmounted the call has no effect
SetState(new, old) == IF mounted THEN new ELSE old

\* a stream is open while it has a live track: one that neither the
\* application stopped nor its source ended (before or after getUserMedia
\* handed the stream over)
MicOpen(i) == acquired[i] /\ trackStops[i] = 0 /\ ~sourceEnded[i]

\* streamRef.current.getTracks().forEach(track => track.stop()), guarded by
\* if (streamRef.current)
StopTracks(ref, stops) ==
    IF ref # 0 THEN [stops EXCEPT ![ref] = @ + 1] ELSE stops

\* ----- sendAudioToBackend: what the outcome of the submission leaves in -----
\* ----- error and transcribedText                                        -----
\* kinds: "success"      2xx, response.data.success truthy, body = native_text
\*        "failureFlag"  2xx, response.data.success falsy,  body = message
\*        "serverError"  err.response set,                   body = detail
\*        "noResponse"   err.request set, no response (also the 30 s timeout)
\*        "nullBody"     2xx, response.data is null: reading .success throws
\*                       inside the try block, the error has neither field
\*        "nullErrorBody" err.response set, err.response.data is null:
\*                       reading .detail throws inside the catch block
\*        "notSent"      neither: the request was never sent
ErrorAfter(kind, body) ==
    CASE kind = "success" -> ""
      [] kind = "failureFlag" -> OrElse(body, NoSpeechMessage)
      [] kind = "serverError" -> ServerErrorPrefix \o OrElse(body, DefaultDetail)
      [] kind = "noResponse" -> ConnectMessage
      [] OTHER -> UnexpectedMessage

TextAfter(kind, body, prevText) ==
    IF kind = "success" THEN body ELSE prevText

\* the catch block of sendAudioToBackend throws: no setError call is made, the
\* finally block runs, and the exception rejects the await of onstop, whose
\* remaining statements (stopping the tracks) are skipped
CatchThrows(kind) == kind = "nullErrorBody"

\* the (kind, body) pairs a submitted request can end with
Outcomes ==
    ({"success"} \X Texts) \cup ({"failureFlag"} \X Messages)
        \cup ({"serverError"} \X Details) \cup {<<"noResponse", "">>}
        \cup {<<"nullBody", "">>, <<"nullErrorBody", "">>}

\* ----- user actions -----

\* click on the record button while it shows "start": startRecording up to
\* its await of getUserMedia
StartRecording ==
    /\ mounted
    /\ ~RecordButtonDisabled
    /\ ~RecordButtonStops
    /\ nStarts < MaxStarts
    /\ nStarts' = nStarts + 1
    /\ startPc' = [startPc EXCEPT ![nStarts + 1] = "awaitMic"]
    /\ closureLang' = [closureLang EXCEPT ![nStarts + 1] = selectedLanguage]
    /\ error' = ""
    /\ UNCHANGED <<transcribedText, isRecording, isProcessing,
                   selectedLanguage, isDarkMode>>
    /\ UNCHANGED <<refVars, mediaVars, reqVars>>
    /\ UNCHANGED listVars

\* MediaRecorder.stop(): a recording recorder becomes inactive and the task
\* that fires dataavailable and stop is queued; on an inactive recorder the
\* call returns without effect
RecorderStop(recs, r) ==
    IF recs[r] = "recording" THEN [recs EXCEPT ![r] = "stopping"] ELSE recs

\* StopRecording that leaves setIsProcessing(true) out
StopRecording_NoProcessing ==
    /\ mounted
    /\ ~RecordButtonDisabled
    /\ RecordButtonStops
    /\ IF mediaRecorderRef # 0 /\ isRecording
          THEN /\ recorder' = RecorderStop(recorder, mediaRecorderRef)
               /\ isRecording' = FALSE
          ELSE UNCHANGED <<recorder, isRecording>>
    /\ UNCHANGED <<transcribedText, isProcessing, selectedLanguage, isDarkMode, error>>
    /\ UNCHANGED <<refVars, callVars, reqVars>>
    /\ UNCHANGED <<acquired, trackStops, sourceEnded, delivered, nFrags>>
    /\ UNCHANGED listVars

\* click on the record button while it shows "stop": stopRecording
StopRecording ==
    /\ mounted
    /\ ~RecordButtonDisabled
    /\ RecordButtonStops
    /\ IF mediaRecorderRef # 0 /\ isRecording
          THEN /\ recorder' = RecorderStop(recorder, mediaRecorderRef)
               /\ isRecording' = FALSE
               /\ isProcessing' = TRUE
          ELSE UNCHANGED <<recorder, isRecording, isProcessing>>
    /\ UNCHANGED <<transcribedText, selectedLanguage, isDarkMode, error>>
    /\ UNCHANGED <<refVars, callVars, reqVars>>
    /\ UNCHANGED <<acquired, trackStops, sourceEnded, delivered, nFrags>>
    /\ UNCHANGED listVars

\* the GET /languages of the mount effect ends.
\* kind: "list"    2xx whose body has a languages array, the given list
\*       "noList"  2xx whose body has no languages array: setLanguages stores
\*                 undefined, the next render throws at languages.map and
\*                 React unmounts the tree
\*       "failed"  anything else: the catch block stores the fallback list
FetchLanguages(kind, list) ==
    /\ fetchPc = "pending"
    /\ fetchPc' = "done"
    /\ languages' = CASE kind = "list" -> list
                      [] kind = "noList" -> Undefined
                      [] OTHER -> FallbackCodes
    /\ mounted' = (kind # "noList")
    /\ UNCHANGED <<uiVars, refVars, callVars, mediaVars, reqVars>>

\* the option a non-empty <select value={selectedLanguage}> shows: the one
\* whose value is selectedLanguage, or the first one when no option has it
DisplayedOption(list, selected) ==
    IF selected \in Codes(list) THEN selected ELSE list[1]

\* onChange of the language selector: the user picks an option other than
\* the one the selector shows
ChangeLanguage(l) ==
    /\ mounted
    /\ ~LanguageSelectDisabled
    /\ l \in Codes(languages)
    /\ l # DisplayedOption(languages, selectedLanguage)
    /\ selectedLanguage' = l
    /\ UNCHANGED <<transcribedText, isRecording, isProcessing, isDarkMode, error>>
    /\ UNCHANGED <<refVars, callVars, mediaVars, reqVars>>
    /\ UNCHANGED listVars

ToggleDarkMode ==
    /\ mounted
    /\ isDarkMode' = ~isDarkMode
    /\ UNCHANGED <<transcribedText, isRecording, isProcessing,
                   selectedLanguage, error>>
    /\ UNCHANGED <<refVars, callVars, mediaVars, reqVars>>
    /\ UNCHANGED listVars

\* click on the Clear button of the transcribed-text card
ClearText ==
    /\ ClearButtonRendered
    /\ transcribedText' = ""
    /\ error' = ""
    /\ UNCHANGED <<isRecording, isProcessing, selectedLanguage, isDarkMode>>
    /\ UNCHANGED <<refVars, callVars, mediaVars, reqVars>>
    /\ UNCHANGED listVars

\* ----- completions of getUserMedia: the rest of startRecording -----

\* the promise rejects (permission denied, no device): the catch block
MicDenied(i) ==
    /\ startPc[i] = "awaitMic"
    /\ startPc' = [startPc EXCEPT ![i] = "returned"]
    /\ error' = SetState(MicErrorMessage, error)
    /\ UNCHANGED <<transcribedText, isRecording, isProcessing,
                   selectedLanguage, isDarkMode>>
    /\ closureLang' = [closureLang EXCEPT ![i] = InitialLanguage]
    /\ UNCHANGED nStarts
    /\ UNCHANGED <<refVars, mediaVars, reqVars>>
    /\ UNCHANGED listVars

\* the promise resolves with a stream and the rest of the try block runs.
\* ended: the tracks of the stream have ended by the time the continuation
\* runs.
MicGranted(i, ended) ==
    /\ startPc[i] = "awaitMic"
    /\ startPc' = [startPc EXCEPT ![i] = "returned"]
    /\ acquired' = [acquired EXCEPT ![i] = TRUE]
    /\ sourceEnded' = [sourceEnded EXCEPT ![i] = ended]
    /\ streamRef' = i
    /\ mediaRecorderRef' = i
    /\ audioChunksRef' = <<>>
    /\ recorder' = [recorder EXCEPT ![i] = "recording"]
    /\ isRecording' = SetState(TRUE, isRecording)
    /\ UNCHANGED <<transcribedText, isProcessing, selectedLanguage,
                   isDarkMode, error>>
    /\ UNCHANGED <<nStarts, closureLang>>
    /\ UNCHANGED <<trackStops, delivered, nFrags, reqVars>>
    /\ UNCHANGED listVars

\* the promise resolves with a stream and new MediaRecorder(stream) throws:
\* streamRef is set, then the catch block runs
MicGrantedConstructorThrows(i, ended) ==
    /\ startPc[i] = "awaitMic"
    /\ startPc' = [startPc EXCEPT ![i] = "returned"]
    /\ acquired' = [acquired EXCEPT ![i] = TRUE]
    /\ sourceEnded' = [sourceEnded EXCEPT ![i] = ended]
    /\ streamRef' = i
    /\ error' = SetState(MicErrorMessage, error)
    /\ UNCHANGED <<transcribedText, isRecording, isProcessing,
                   selectedLanguage, isDarkMode>>
    /\ UNCHANGED <<mediaRecorderRef, audioChunksRef>>
    /\ closureLang' = [closureLang EXCEPT ![i] = InitialLanguage]
    /\ UNCHANGED nStarts
    /\ UNCHANGED <<trackStops, recorder, delivered, nFrags, reqVars>>
    /\ UNCHANGED listVars

\* state of a MediaRecorder whose start() threw: the platform either left it
\* inactive or had already switched it to recording
StatesAfterFailedStart == {"inactive", "recording"}

\* the promise resolves with a stream and mediaRecorder.start() throws: the
\* refs and handlers are set, then the catch block runs.  A recorder left
\* recording keeps its handlers, and so the closure of this invocation.
MicGrantedStartThrows(i, state, ended) ==
    /\ startPc[i] = "awaitMic"
    /\ startPc' = [startPc EXCEPT ![i] = "returned"]
    /\ acquired' = [acquired EXCEPT ![i] = TRUE]
    /\ sourceEnded' = [sourceEnded EXCEPT ![i] = ended]
    /\ streamRef' = i
    /\ mediaRecorderRef' = i
    /\ audioChunksRef' = <<>>
    /\ recorder' = [recorder EXCEPT ![i] = state]
    /\ error' = SetState(MicErrorMessage, error)
    /\ UNCHANGED <<transcribedText, isRecording, isProcessing,
                   selectedLanguage, isDarkMode>>
    /\ closureLang' = IF state = "recording" THEN closureLang
                      ELSE [closureLang EXCEPT ![i] = InitialLanguage]
    /\ UNCHANGED nStarts
    /\ UNCHANGED <<trackStops, delivered, nFrags, reqVars>>
    /\ UNCHANGED listVars

\* ----- events of a MediaRecorder -----

\* mediaRecorder.ondataavailable: audioChunksRef.current after an event of
\* recorder i whose data is fragment number n of the given size
PushChunk(chunks, i, n, size) ==
    IF size > 0 THEN Append(chunks, <<i, n>>) ELSE chunks

\* the fragments of recorder i with data, as the capture subsystem delivered them
Deliver(dlv, i, n, size) ==
    IF size > 0 THEN [dlv EXCEPT ![i] = Append(@, <<i, n>>)] ELSE dlv

\* a dataavailable event of a recording recorder
OnDataAvailable(i, size) ==
    /\ recorder[i] = "recording"
    /\ nFrags < MaxFrags
    /\ nFrags' = IF size > 0 THEN nFrags + 1 ELSE nFrags
    /\ audioChunksRef' = PushChunk(audioChunksRef, i, nFrags + 1, size)
    /\ delivered' = Deliver(delivered, i, nFrags + 1, size)
    /\ UNCHANGED <<uiVars, callVars, reqVars>>
    /\ UNCHANGED <<mediaRecorderRef, streamRef, acquired, trackStops,
                   sourceEnded, recorder>>
    /\ UNCHANGED listVars

\* the source of an open stream ends its tracks
TracksEndedBySource(i) ==
    /\ MicOpen(i)
    /\ sourceEnded' = [sourceEnded EXCEPT ![i] = TRUE]
    /\ UNCHANGED <<uiVars, refVars, callVars, reqVars>>
    /\ UNCHANGED <<acquired, trackStops, recorder, delivered, nFrags>>
    /\ UNCHANGED listVars

\* all tracks of the stream of a recording recorder have ended, stopped by
\* the application or ended by their source: the browser inactivates the
\* recorder and queues the task that fires dataavailable and stop, as it
\* does for stop()
RecorderTracksEnded(i) ==
    /\ recorder[i] = "recording"
    /\ ~MicOpen(i)
    /\ recorder' = [recorder EXCEPT ![i] = "stopping"]
    /\ UNCHANGED <<uiVars, refVars, callVars, reqVars>>
    /\ UNCHANGED <<acquired, trackStops, sourceEnded, delivered, nFrags>>
    /\ UNCHANGED listVars

\* sizes the final dataavailable event of a stopped recorder may have within
\* the fragment bound
FinalSizes == IF nFrags < MaxFrags THEN {0, 1} ELSE {0}

\* the task queued when a recorder is inactivated: the final dataavailable
\* event, then onstop, which builds the blob from audioChunksRef.current and
\* calls sendAudioToBackend.  sent: axios.post issued the request and onstop
\* is suspended on it.  ~sent: the request was never sent, the third branch
\* of the catch block and the finally block run, and onstop stops the tracks.
RecorderStopTask(i, size, sent) ==
    /\ recorder[i] = "stopping"
    /\ size \in FinalSizes
    /\ recorder' = [recorder EXCEPT ![i] = "stopped"]
    /\ nFrags' = IF size > 0 THEN nFrags + 1 ELSE nFrags
    /\ audioChunksRef' = PushChunk(audioChunksRef, i, nFrags + 1, size)
    /\ delivered' = IF sent THEN Deliver(delivered, i, nFrags + 1, size)
                           ELSE [delivered EXCEPT ![i] = <<>>]
    /\ IF sent
          THEN /\ request' = [request EXCEPT ![i] = "inflight"]
               /\ reqAudio' = [reqAudio EXCEPT ![i] = audioChunksRef']
               /\ reqLanguage' = [reqLanguage EXCEPT ![i] = closureLang[i]]
               /\ UNCHANGED <<error, isProcessing, trackStops>>
          ELSE /\ request' = [request EXCEPT ![i] = "notSent"]
               /\ UNCHANGED <<reqAudio, reqLanguage>>
               /\ error' = SetState(ErrorAfter("notSent", ""), error)
               /\ isProcessing' = SetState(FALSE, isProcessing)
               /\ trackStops' = StopTracks(streamRef, trackStops)
    /\ UNCHANGED <<transcribedText, isRecording, selectedLanguage, isDarkMode>>
    /\ closureLang' = [closureLang EXCEPT ![i] = InitialLanguage]
    /\ UNCHANGED <<mediaRecorderRef, streamRef, nStarts, startPc, acquired,
                   sourceEnded>>
    /\ UNCHANGED listVars

\* the request of recorder i ends with outcome (kind, body): the rest of
\* sendAudioToBackend, then the rest of onstop
Response(i, kind, body) ==
    /\ request[i] = "inflight"
    /\ request' = [request EXCEPT ![i] = "handled"]
    /\ transcribedText' = SetState(TextAfter(kind, body, transcribedText),
                                   transcribedText)
    /\ error' = IF CatchThrows(kind) THEN error
                ELSE SetState(ErrorAfter(kind, body), error)
    /\ isProcessing' = SetState(FALSE, isProcessing)
    /\ trackStops' = IF CatchThrows(kind) THEN trackStops
                     ELSE StopTracks(streamRef, trackStops)
    /\ UNCHANGED <<isRecording, selectedLanguage, isDarkMode>>
    /\ reqAudio' = [reqAudio EXCEPT ![i] = <<>>]
    /\ reqLanguage' = [reqLanguage EXCEPT ![i] = InitialLanguage]
    /\ delivered' = [delivered EXCEPT ![i] = <<>>]
    /\ UNCHANGED <<refVars, callVars>>
    /\ UNCHANGED <<acquired, sourceEnded, recorder, nFrags>>
    /\ UNCHANGED listVars

Next ==
    \/ StartRecording
    \/ StopRecording
    \/ \E kind \in {"list", "noList", "failed"}, list \in ServerLists :
          FetchLanguages(kind, list)
    \/ \E l \in Langs : ChangeLanguage(l)
    \/ ToggleDarkMode
    \/ ClearText
    \/ \E i \in Ids : MicDenied(i)
    \/ \E i \in Ids, ended \in BOOLEAN : MicGranted(i, ended)
    \/ \E i \in Ids, ended \in BOOLEAN : MicGrantedConstructorThrows(i, ended)
    \/ \E i \in Ids, state \in StatesAfterFailedStart, ended \in BOOLEAN :
          MicGrantedStartThrows(i, state, ended)
    \/ \E i \in Ids, size \in {0, 1} : OnDataAvailable(i, size)
    \/ \E i \in Ids : TracksEndedBySource(i)
    \/ \E i \in Ids : RecorderTracksEnded(i)
    \/ \E i \in Ids, size \in {0, 1}, sent \in BOOLEAN : RecorderStopTask(i, size, sent)
    \/ \E i \in Ids, o \in Outcomes : Response(i, o[1], o[2])

Spec == Init /\ [][Next]_vars

\* ----- properties -----

\* the onstop handler of recorder i runs to its end in this step: its request
\* ends, or its request is never sent
OnStopCompletes(i) ==
    \/ request[i] = "inflight" /\ request'[i] = "handled"
    \/ recorder[i] = "stopping" /\ request'[i] = "notSent"

\* C1: a microphone stream is open only while the controller is Recording;
\* it is never open while isProcessing is true, nor once isRecording is false
C1_MicOpenOnlyWhileRecording ==
    \A i \in Ids : MicOpen(i) => (isRecording /\ ~isProcessing)

\* C2: when the onstop handler of a stopped recording has run, the tracks of
\* the stream acquired for that recording have been stopped exactly once, and
\* the handler stopped the tracks of no other stream
C2_ReleasedExactlyOnce ==
    [][\A i \in Ids :
          OnStopCompletes(i) => trackStops' = [trackStops EXCEPT ![i] = 1]]_vars

\* C3: at most one of transcribedText and error is non-empty
C3_AtMostOnePopulated ==
    ~(transcribedText # "" /\ error # "")

\* C4: when Processing is exited the controller is in exactly one of
\* Displaying (transcribedText non-empty) and Errored (error non-empty)
C4_ProcessingEndsInExactlyOne ==
    [][(isProcessing /\ ~isProcessing') =>
          ((transcribedText' # "") # (error' # ""))]_vars

\* C5: at most one capture is active: never two open streams, never two
\* recording MediaRecorders, never fragments of two recorders in audioChunks
C5_AtMostOneCapture ==
    /\ Cardinality({i \in Ids : MicOpen(i)}) <= 1
    /\ Cardinality({i \in Ids : recorder[i] = "recording"}) <= 1
    /\ \A m, n \in 1..Len(audioChunksRef) :
          audioChunksRef[m][1] = audioChunksRef[n][1]

\* C6: while isRecording or isProcessing is true no startRecording is invoked,
\* no stream is acquired, no recorder is created or made current, and
\* audioChunks is not emptied
C6_NoStartWhileBusy ==
    [][(isRecording \/ isProcessing) =>
          /\ nStarts' = nStarts
          /\ acquired' = acquired
          /\ mediaRecorderRef' = mediaRecorderRef
          /\ \A i \in Ids : recorder[i] = "none" => recorder'[i] = "none"
          /\ (audioChunksRef # <<>> => audioChunksRef' # <<>>)]_vars

\* C7: the audio of a submitted request is the sequence of non-empty fragments
\* its recorder delivered, in arrival order
C7_PayloadIsDeliveredFragments ==
    \A i \in Ids : request[i] = "inflight" => reqAudio[i] = delivered[i]

\* C8: the language field of a request equals selectedLanguage at the moment
\* the request is submitted
C8_RequestCarriesSelectedLanguage ==
    [][\A i \in Ids :
          (request[i] # "inflight" /\ request'[i] = "inflight")
              => reqLanguage'[i] = selectedLanguage]_vars

\* C9: no step taken while isRecording or isProcessing is true changes
\* selectedLanguage
C9_LanguageFrozenWhileBusy ==
    [][(isRecording \/ isProcessing) => selectedLanguage' = selectedLanguage]_vars

\* C9 witness: a language other than the initial one was chosen, a recording
\* made with it was stopped and its request is in flight, Processing shown
C9_Witness ==
    /\ isProcessing
    /\ selectedLanguage # InitialLanguage
    /\ \E i \in Ids : request[i] = "inflight" /\ reqLanguage[i] = selectedLanguage

\* C10: at most one POST /transcribe request is in flight
C10_AtMostOneInFlight ==
    Cardinality({i \in Ids : request[i] = "inflight"}) <= 1

\* the getUserMedia promise of invocation i rejects in this step
GetUserMediaRejects(i) ==
    startPc[i] = "awaitMic" /\ startPc'[i] = "returned" /\ ~acquired'[i]

\* C11: when getUserMedia rejects (the component being mounted),
\* startRecording ends with the controller in Errored with the
\* microphone-permission message: isRecording and isProcessing are false, no
\* microphone stream is open and no recorder is recording
C11_DenialBecomesErrorState ==
    [][\A i \in Ids :
          (mounted /\ GetUserMediaRejects(i)) =>
              /\ error' = MicErrorMessage
              /\ ~isRecording'
              /\ ~isProcessing'
              /\ \A j \in Ids :
                    /\ ~(acquired'[j] /\ trackStops'[j] = 0 /\ ~sourceEnded'[j])
                    /\ recorder'[j] # "recording"]_vars

\* C12: transcribedText is empty whenever isRecording or isProcessing is true
\* (a result is present only in Displaying)
C12_ResultOnlyInDisplaying ==
    (isRecording \/ isProcessing) => transcribedText = ""

\* C13: error is empty whenever isRecording or isProcessing is true
C13_ErrorOnlyInErrored ==
    (isRecording \/ isProcessing) => error = ""

\* C14: in every state that is Displaying or Errored (neither flag set, a
\* result or an error shown) the Clear button is available, and a click on
\* it leaves the controller Idle with transcribedText and error empty
C14_ClearAllowedInDisplayingAndErrored ==
    /\ [](    (mounted /\ ~isRecording /\ ~isProcessing
                   /\ (transcribedText # "" \/ error # ""))
           => ClearButtonRendered)
    /\ [][ClearText =>
            /\ transcribedText' = "" /\ error' = ""
            /\ isRecording' = isRecording /\ isProcessing' = isProcessing]_vars

\* the controller (a mounted component) shows an error and neither records
\* nor processes
Errored == mounted /\ ~isRecording /\ ~isProcessing /\ error # ""

\* the getUserMedia promise of invocation i resolves in this step
GetUserMediaResolves(i) ==
    startPc[i] = "awaitMic" /\ startPc'[i] = "returned" /\ acquired'[i]

\* C15: in every Errored state the start action is enabled without a clear
\* (as long as the model has an invocation left), a start empties error, and
\* whenever microphone access is granted the controller is in Recording when
\* startRecording returns: isRecording true, isProcessing false, no error
C15_RestartFromErrored ==
    /\ []((Errored /\ nStarts < MaxStarts) => ENABLED StartRecording)
    /\ [][(nStarts' = nStarts + 1) => error' = ""]_vars
    /\ [][\A i \in Ids :
            (mounted /\ GetUserMediaResolves(i)) =>
                (isRecording' /\ ~isProcessing' /\ error' = "")]_vars

\* C16: a response with the success flag set ends Processing in Displaying:
\* transcribedText is the returned native_text and is shown (non-empty), and
\* error is empty, whatever the returned text and the previous contents
C16_SuccessDisplaysReturnedText ==
    [][\A i \in Ids, t \in Texts :
          (mounted /\ Response(i, "success", t)) =>
              /\ ~isProcessing'
              /\ transcribedText' = t /\ transcribedText' # ""
              /\ error' = ""]_vars

\* C17: a 2xx response with the success flag false leaves Processing into
\* Errored and not Displaying: both flags are false, error is the server's
\* message, or the no-speech default when the message is empty or missing,
\* and no result is shown
C17_FailureFlagShowsMessage ==
    [][\A i \in Ids, m \in Messages :
          (mounted /\ Response(i, "failureFlag", m)) =>
              /\ ~isProcessing'
              /\ ~isRecording'
              /\ error' = (IF m = "" THEN "No speech detected" ELSE m)
              /\ error' # ""
              /\ transcribedText' = ""]_vars

\* C18: a failed submission ends Processing with a message chosen by cause:
\* a non-2xx response shows "Error: " followed by the server's detail (the
\* default detail when the body has none, a null body included), which is
\* never the connectivity message; no response shows the connectivity
\* message; a request never sent shows the generic one
C18_MessageByCause ==
    [][\A i \in Ids :
          /\ (mounted /\ request[i] = "inflight" /\ request'[i] = "handled") =>
                /\ \A d \in Details :
                      Response(i, "serverError", d) =>
                          /\ error' = "Error: " \o (IF d = "" THEN DefaultDetail ELSE d)
                          /\ error' # ConnectMessage
                          /\ ~isProcessing'
                /\ Response(i, "nullErrorBody", "") =>
                      /\ error' = "Error: " \o DefaultDetail
                      /\ ~isProcessing'
                /\ Response(i, "noResponse", "") =>
                      (error' = ConnectMessage /\ ~isProcessing')
          /\ (mounted /\ recorder[i] = "stopping" /\ request'[i] = "notSent") =>
                \A size \in {0, 1} :
                    RecorderStopTask(i, size, FALSE) =>
                        (error' = UnexpectedMessage /\ ~isProcessing')]_vars

\* C19: audioChunks is emptied only at the start of a session: never while a
\* recorder is recording, and the audio submitted for a recorder holds
\* fragments of that recorder only
C19_ChunksClearedOnlyAtSessionStart ==
    [][/\ ((\E i \in Ids : recorder[i] = "recording") /\ audioChunksRef # <<>>)
            => audioChunksRef' # <<>>
       /\ \A i \in Ids :
             (request[i] # "inflight" /\ request'[i] = "inflight")
                 => \A k \in 1..Len(reqAudio'[i]) : reqAudio'[i][k][1] = i]_vars

\* ClearText, StartRecording, StopRecording, ChangeLanguage or ToggleDarkMode
UserAction ==
    \/ StartRecording
    \/ StopRecording
    \/ \E l \in Langs : ChangeLanguage(l)
    \/ ToggleDarkMode
    \/ ClearText

\* C20: isProcessing becomes false only when the outcome of the submission
\* has been handled: in a step that ends an onstop handler, after which no
\* stopped recorder still has its submission ahead and no request is in
\* flight; and no user action taken while isProcessing is true ends
\* Processing or touches a request
C20_NoCancellation ==
    [][/\ (isProcessing /\ ~isProcessing') =>
             /\ \E i \in Ids : OnStopCompletes(i)
             /\ \A j \in Ids :
                   recorder'[j] # "stopping" /\ request'[j] # "inflight"
       /\ (isProcessing /\ UserAction) => (isProcessing' /\ UNCHANGED reqVars)]_vars

\* C21: isRecording goes from true to false only in a stopRecording step, and
\* every stopRecording step taken while isRecording is true leaves the
\* current recorder not recording, isRecording false and isProcessing true
C21_RecordingExitsOnlyByStop ==
    [][/\ (isRecording /\ ~isRecording') => StopRecording
       /\ (isRecording /\ StopRecording) =>
             /\ mediaRecorderRef # 0
             /\ recorder'[mediaRecorderRef] # "recording"
             /\ ~isRecording'
             /\ isProcessing']_vars

\* C21 witness: the stop click was taken in Recording: the current recorder
\* is inactive with its stop event pending, Processing is shown
C21_Witness ==
    /\ mediaRecorderRef # 0
    /\ recorder[mediaRecorderRef] = "stopping"
    /\ ~isRecording /\ isProcessing

\* C22: isRecording and isProcessing are never both true
C22_FlagsMutuallyExclusive ==
    ~(isRecording /\ isProcessing)

====
